---- MODULE Spec2Model ----
(***************************************************************************)
(* A model of the MCP tools connection manager and execution dispatcher    *)
(* of datalayer/jupyter-mcp-tools: class MCPToolsWebSocket and the         *)
(* function safeSerialize of src/src/index.ts.                             *)
(*                                                                         *)
(* The browser is the environment.  It owns every WebSocket's readyState,  *)
(* delivers the open / message / error / close events, runs the callbacks  *)
(* handed to setTimeout and requestAnimationFrame, and settles the         *)
(* promises of the host command registry.  Every handler of the class is   *)
(* one action: JavaScript runs a handler to completion, and an `await`     *)
(* ends the step (its continuation is an action of its own).               *)
(***************************************************************************)
EXTENDS Integers, Sequences, FiniteSets, TLC

(***************************************************************************)
(* Bounds of the model.                                                    *)
(***************************************************************************)
\* transports created when only the plugin's activate calls connect()
MaxRetrySockets == 7
\* transports created when callers call connect() and close() at any time
MaxConnSockets == 3
\* calls of connect() made by a caller (the plugin's activate makes the first)
MaxConnectCalls == 2
\* calls of close() made by a caller
MaxCloseCalls == 1
\* transports created while the peer and the panel ask for executions
MaxSockets == 2
\* executions asked for (message events and clicks on the panel's buttons)
MaxRequests == 1
\* executions asked for where the claim is about several in flight at once
MaxPairRequests == 2
\* connections the peer accepts (open events)
MaxOpens == 1
\* characters of a command identifier, where identifiers are arbitrary
MaxIdLen == 3
\* commands the host knows, where its set of commands is arbitrary
MaxCommands == 3
\* the depth limit handed to safeSerialize, where it is arbitrary
MaxDepthArg == 3
\* transports created, and connections the peer accepts, where a message is
\* followed through a reconnection
MaxSendSockets == 3
MaxSendOpens == 2

(***************************************************************************)
(* Program constants.                                                      *)
(***************************************************************************)
\* private maxReconnectAttempts = 5
maxReconnectAttempts == 5

VARIABLES
  ws,                 \* this.ws: 0 is null, otherwise the transport's number
  readyState,         \* readyState of every transport created, in creation order
  reconnectAttempts,  \* this.reconnectAttempts
  timers,             \* pending setTimeout(() => this.connect(), reconnectDelay)
  rafs,               \* transports whose onopen's requestAnimationFrame is pending
  sent,               \* what ws.send() was given, in order: [sock, msg]
  log,                \* the widget's message log (widget.addMessage), in order
  tools,              \* the widget's tool list (widget.setTools)
  inflight,           \* host command invocations awaited: the suspended calls
  \* history of the run, read by the properties only
  opened,             \* transports that had an open event
  errored,            \* transports that had an error event and no close event yet
  ticked,             \* transports whose deferred registration has run
  callerClosed,       \* transports close() was called on while connecting or open
  connectCalls,       \* connect() calls made by a caller
  closeCalls,         \* close() calls made by a caller
  staleTimers,        \* timers that were pending at the last close(), not yet fired
  failedSinceOpen,    \* close events of never-opened transports since the last open
  autoSinceOpen,      \* reconnects scheduled since the last open
  failsAtOpen,        \* failedSinceOpen as the last open event found it (-1: none)
  exhausted,          \* "Max reconnection attempts reached" since the last open
  received,           \* the data of every message event, in order: [sock, data]
  invoked,            \* the calls of commands.execute, in order
  settled,            \* how each awaited call settled, in order, and whether
                      \* sendMessage's condition held then
  escaped,            \* faults that left a handler uncaught
  uiCalls,            \* executions asked for from the panel
  dropped,            \* what sendMessage was given and did not send: [msg, cause]
  \* the host
  turnedOff,          \* the commands the host has disabled since construction,
                      \* each with the number of message events before it
  \* a call of one of the program's pure functions, on its own
  arg,                \* the argument of the call
  ret                 \* the value returned, once it has returned

connVars == <<ws, readyState, reconnectAttempts, timers, rafs>>
wireVars == <<sent, log, tools, dropped>>
dispVars == <<inflight, received, invoked, settled, escaped, uiCalls>>
histVars == <<opened, errored, ticked, callerClosed, connectCalls, closeCalls,
              staleTimers, failedSinceOpen, autoSinceOpen, failsAtOpen, exhausted>>
hostVars == <<turnedOff>>
pureVars == <<arg, ret>>
vars == <<connVars, wireVars, histVars, dispVars, hostVars, pureVars>>

(***************************************************************************)
(* The host command registry (app.commands), an external collaborator.     *)
(* Identifiers and tool ids are sequences of one-character strings, so     *)
(* that the separator substitutions act on them character by character.    *)
(***************************************************************************)
\* commands.listCommands(), in the host's enumeration order
listCommands ==
  << <<"a", ":", "b">>, <<"a", ":", "c">>, <<"d">>, <<"e">> >>

\* whether a metadata query (isEnabled, label, caption, usage) of the command throws
queryThrows(id) == id = <<"e">>

\* commands.hasCommand(id)
hasCommand(id) == \E i \in 1..Len(listCommands) : listCommands[i] = id

\* commands.isEnabled(id), as the host is constructed
isEnabled(id) == id # <<"a", ":", "c">>

\* commands.label(id); the empty sequence is the empty string
label(id) == IF id = <<"a", ":", "b">> THEN <<"Run">> ELSE << >>

\* commands.caption(id)
caption(id) == IF id = <<"a", ":", "b">> THEN <<"Run it">> ELSE << >>

\* commands.usage(id)
usage(id) == << >>

\* commands.isEnabled(id) at this moment: the host may have disabled the
\* command since
isEnabledNow(id) == isEnabled(id) /\ \A d \in turnedOff : d.id # id

(***************************************************************************)
(* Tool ids.                                                               *)
(***************************************************************************)
\* commandId.replace(/:/g, ' ')
ColonsToSpaces(id) == [i \in 1..Len(id) |-> IF id[i] = ":" THEN " " ELSE id[i]]

\* toolId.replace(/ /g, ':')
\* (the first leaves the spaces, for comparison)
SpacesKept(id) == id
SpacesToColons(id) == [i \in 1..Len(id) |-> IF id[i] = " " THEN ":" ELSE id[i]]

\* getCommandParameters: the same placeholder schema for every command
getCommandParameters(id) ==
  [type |-> "object", properties |-> {}, description |-> "Command arguments (if any)"]

\* the body of registerTools' forEach for one command: the tool pushed
ToolOf(id) ==
  LET toolId == ColonsToSpaces(id) IN
  [ id         |-> toolId,
    label      |-> IF label(id) = << >> THEN toolId ELSE label(id),
    caption    |-> caption(id),
    usage      |-> usage(id),
    isEnabled  |-> isEnabledNow(id),
    parameters |-> getCommandParameters(id) ]

\* the tools array registerTools builds: the tool of every command whose
\* queries do not throw (the catch skips the others), in enumeration order
\* (ProcessedUntilFailure is the enumeration given up at the first command
\* whose queries throw, for comparison)
ProcessedUntilFailure(commands) ==
  LET failing == {j \in 1..Len(commands) : queryThrows(commands[j])}
      first == IF failing = {} THEN Len(commands) + 1
               ELSE CHOOSE j \in failing : \A k \in failing : j <= k
  IN  SubSeq(commands, 1, first - 1)
ProcessedOf(commands) == SelectSeq(commands, LAMBDA c : ~queryThrows(c))
BuildToolsOf(commands) ==
  [i \in 1..Len(ProcessedOf(commands)) |-> ToolOf(ProcessedOf(commands)[i])]
Processed == ProcessedOf(listCommands)
BuildTools == BuildToolsOf(listCommands)

(***************************************************************************)
(* JavaScript values.  A primitive is a record of its type and value; an   *)
(* array or an object is a reference into Heap, so that two references may *)
(* name one structure and a structure may hold a reference to itself.      *)
(***************************************************************************)
Undefined == [k |-> "undefined"]
Num(n) == [k |-> "number", v |-> n]
Str(t) == [k |-> "string", v |-> t]
Fun(src) == [k |-> "function", v |-> src]
Ref(n) == [k |-> "ref", at |-> n]

\* slice(0, 100) of arrays and of Object.keys
\* (the first is the whole of it, for comparison)
SliceCap == 100
Unsliced(q) == q
Slice(q) == SubSeq(q, 1, IF Len(q) < SliceCap THEN Len(q) ELSE SliceCap)

\* n numbers, and n property names
Wide(n) == [i \in 1..n |-> Num(i)]
Names(n) == [i \in 1..n |-> ToString(i)]

Arr(items) == [array |-> TRUE, keys |-> << >>, vals |-> items]
Obj(ks, vs) == [array |-> FALSE, keys |-> ks, vals |-> vs]

\* the structures command results are made of
Heap ==
  << Obj(<<"cell">>, <<Num(1)>>),                       \* 1: { cell: 1 }
     Obj(<<"self", "n">>, <<Ref(2), Num(2)>>),          \* 2: o = { self: o, n: 2 }
     Obj(<<"a">>, <<Ref(4)>>),                          \* 3: { a: { b: { c: { d: 1 } } } }
     Obj(<<"b">>, <<Ref(5)>>),                          \* 4
     Obj(<<"c">>, <<Ref(6)>>),                          \* 5
     Obj(<<"d">>, <<Num(1)>>),                          \* 6
     Obj(<<"l", "r">>, <<Ref(1), Ref(1)>>),             \* 7: { l: x, r: x }, x = Heap[1]
     Arr(<<Ref(8), Num(8)>>),                           \* 8: a = [a, 8]
     Arr(<<Ref(1), Fun("f"), Undefined>>),              \* 9: [x, f, undefined]
     Obj(<<"top">>, <<Ref(3)>>),                        \* 10: { top: Heap[3] }
     Arr(<<Ref(12)>>),                                  \* 11: [[[[[1]]]]]
     Arr(<<Ref(13)>>),                                  \* 12
     Arr(<<Ref(14)>>),                                  \* 13
     Arr(<<Ref(15)>>),                                  \* 14
     Arr(<<Num(1)>>),                                   \* 15
     Arr(Wide(SliceCap + 1)),                           \* 16: [1, ..., 101]
     Obj(Names(SliceCap + 1), Wide(SliceCap + 1)),      \* 17: { 1: 1, ..., 101: 101 }
     Arr(Wide(SliceCap)),                               \* 18: [1, ..., 100]
     Obj(Names(SliceCap), Wide(SliceCap)),              \* 19: { 1: 1, ..., 100: 100 }
     Obj(<<"rows", "byName">>, <<Ref(16), Ref(17)>>) >> \* 20: { rows: Heap[16], byName: Heap[17] }

\* the primitives safeSerialize returns as they are
IsPrimitive(v) == v.k \in {"undefined", "null", "boolean", "number", "string"}

\* the test that stops the recursion: currentDepth > maxDepth
TooDeep(currentDepth, maxDepth) == currentDepth > maxDepth

\* the default of the parameter maxDepth
DefaultMaxDepth == 3

\* safeSerialize(obj, maxDepth, currentDepth, seen): the value returned and
\* the WeakSet `seen` as the call leaves it (one set, shared by the whole
\* traversal and never removed from); SerializeAll is the map / the for loop,
\* from the first member to the last, `seen` going from each to the next
\* (written by halves, the first half before the second)
RECURSIVE Serialize(_, _, _, _)
RECURSIVE SerializeAll(_, _, _, _)
Serialize(obj, maxDepth, currentDepth, seen) ==
  IF IsPrimitive(obj) THEN [out |-> obj, seen |-> seen]
  ELSE IF TooDeep(currentDepth, maxDepth)
    THEN [out |-> Str("<max depth reached>"), seen |-> seen]
  ELSE IF obj.k = "ref" /\ Heap[obj.at].array
    THEN LET r == SerializeAll(Slice(Heap[obj.at].vals), maxDepth, currentDepth + 1, seen)
         IN  [out |-> [k |-> "array", items |-> r.out], seen |-> r.seen]
  ELSE IF obj.k = "ref"
    THEN IF obj.at \in seen
           THEN [out |-> Str("<circular reference>"), seen |-> seen]
           ELSE LET n == Len(Slice(Heap[obj.at].keys))
                    r == SerializeAll(SubSeq(Heap[obj.at].vals, 1, n), maxDepth,
                                      currentDepth + 1, seen \cup {obj.at})
                IN  [out |-> [k |-> "object", keys |-> Slice(Heap[obj.at].keys),
                              vals |-> r.out],
                     seen |-> r.seen]
  ELSE [out |-> Str(obj.v), seen |-> seen]

SerializeAll(items, maxDepth, currentDepth, seen) ==
  IF items = << >> THEN [out |-> << >>, seen |-> seen]
  ELSE IF Len(items) = 1
    THEN LET h == Serialize(items[1], maxDepth, currentDepth, seen)
         IN  [out |-> <<h.out>>, seen |-> h.seen]
  ELSE LET half == Len(items) \div 2
           h == SerializeAll(SubSeq(items, 1, half), maxDepth, currentDepth, seen)
           t == SerializeAll(SubSeq(items, half + 1, Len(items)), maxDepth,
                             currentDepth, h.seen)
       IN  [out |-> h.out \o t.out, seen |-> t.seen]

\* (the first hands the value back as it is, for comparison)
safeSerializeUntouched(obj, maxDepth) == obj
safeSerialize(obj, maxDepth) == Serialize(obj, maxDepth, 0, {}).out


(***************************************************************************)
(* Messages: a record of the fields a message carries.                     *)
(***************************************************************************)
RegisterToolsMsg(ts) == [type |-> "register_tools", tools |-> ts]

\* widget.addMessage(direction, type, data)
LogEntry(direction, type, data) == [direction |-> direction, type |-> type, data |-> data]

\* the condition of sendMessage: this.ws && this.ws.readyState === WebSocket.OPEN
\* (the first is the condition without its test of readyState, for comparison)
HasSocket == ws # 0
IsOpen == ws # 0 /\ readyState[ws] = "OPEN"

\* sendMessage(message): what it makes of `sent` and of `log`.  An entry of
\* `sent` also records the transport written to and the message event (its
\* place in `received`, 0 for none) whose handling wrote it.
SentAfter(message, cause) ==
  IF IsOpen THEN Append(sent, [sock |-> ws, msg |-> message, cause |-> cause]) ELSE sent
DroppedAfter(message, cause) ==
  IF IsOpen THEN dropped ELSE Append(dropped, [msg |-> message, cause |-> cause])
LogAfterSend(message) ==
  IF IsOpen THEN Append(log, LogEntry("sent", message.type, message)) ELSE log

(***************************************************************************)
(* The connection manager.                                                 *)
(***************************************************************************)
Sockets == 1..Len(readyState)
Live(s) == readyState[s] \in {"CONNECTING", "OPEN"}

\* connect(): new WebSocket(wsUrl) is assigned to this.ws and its four
\* handlers are set; nothing is tested first
connect ==
  /\ readyState' = Append(readyState, "CONNECTING")
  /\ ws' = Len(readyState) + 1

\* attemptReconnect(): what it makes of the counter and of the pending timers
\* the guard of attemptReconnect, and the guard off by one
CanRetryOneMore == reconnectAttempts <= maxReconnectAttempts
CanRetry == reconnectAttempts < maxReconnectAttempts
\* (attemptReconnectTwice sets two timers where one is set, for comparison)
attemptReconnectTwice ==
  /\ reconnectAttempts' = IF CanRetry THEN reconnectAttempts + 1 ELSE reconnectAttempts
  /\ timers' = IF CanRetry THEN timers + 2 ELSE timers
attemptReconnect ==
  /\ reconnectAttempts' = IF CanRetry THEN reconnectAttempts + 1 ELSE reconnectAttempts
  /\ timers' = IF CanRetry THEN timers + 1 ELSE timers

\* a caller calls connect()
Connect(limit, calls) ==
  /\ connectCalls < calls
  /\ Len(readyState) < limit
  /\ connect
  /\ connectCalls' = connectCalls + 1
  /\ staleTimers' = 0
  /\ UNCHANGED <<hostVars, pureVars, dispVars, reconnectAttempts, timers, rafs, wireVars, opened, errored, ticked,
                 callerClosed, closeCalls, failedSinceOpen, autoSinceOpen,
                 failsAtOpen, exhausted>>

\* the callback of setTimeout runs: () => this.connect()
\* (TimerFireRepeats is a timer that stays set once it has fired, for
\* comparison)
TimerFireRepeats(limit) ==
  /\ timers > 0
  /\ Len(readyState) < limit
  /\ connect
  /\ UNCHANGED <<hostVars, pureVars, dispVars, reconnectAttempts, timers, rafs, wireVars,
                 opened, errored, ticked, callerClosed, connectCalls, closeCalls,
                 staleTimers, failedSinceOpen, autoSinceOpen, failsAtOpen, exhausted>>
TimerFire(limit) ==
  /\ timers > 0
  /\ Len(readyState) < limit
  /\ connect
  /\ timers' = timers - 1
  /\ staleTimers' = IF staleTimers > 0 THEN staleTimers - 1 ELSE 0
  /\ UNCHANGED <<hostVars, pureVars, dispVars, reconnectAttempts, rafs, wireVars, opened, errored, ticked,
                 callerClosed, connectCalls, closeCalls, failedSinceOpen,
                 autoSinceOpen, failsAtOpen, exhausted>>

\* the value ws.onopen assigns to this.reconnectAttempts
\* (and the counter left as it was, for comparison)
AttemptsKept == reconnectAttempts
AttemptsOnOpen == 0

\* ws.onopen: the counter is reset and the registration deferred
OnOpenOf(s, opens) ==
  /\ s \in Sockets
  /\ readyState[s] = "CONNECTING"
  /\ s \notin errored
  /\ Cardinality(opened) < opens
  /\ readyState' = [readyState EXCEPT ![s] = "OPEN"]
  /\ reconnectAttempts' = AttemptsOnOpen
  /\ rafs' = rafs \cup {s}
  /\ opened' = opened \cup {s}
  /\ failsAtOpen' = failedSinceOpen
  /\ failedSinceOpen' = 0
  /\ autoSinceOpen' = 0
  /\ exhausted' = FALSE
  /\ UNCHANGED <<hostVars, pureVars, dispVars, ws, timers, wireVars, errored, ticked, callerClosed, connectCalls,
                 closeCalls, staleTimers>>

OnOpen(s) == OnOpenOf(s, MaxOpens)

\* ws.onerror: console.error only
\* (OnErrorReconnects is an error handler that reconnects, for comparison)
OnErrorReconnects(s) ==
  /\ s \in Sockets
  /\ Live(s)
  /\ s \notin errored
  /\ errored' = errored \cup {s}
  /\ attemptReconnect
  /\ UNCHANGED <<hostVars, pureVars, dispVars, ws, readyState, rafs, wireVars, opened, ticked,
                 callerClosed, connectCalls, closeCalls, staleTimers, failedSinceOpen,
                 autoSinceOpen, failsAtOpen, exhausted>>
OnError(s) ==
  /\ s \in Sockets
  /\ Live(s)
  /\ s \notin errored
  /\ errored' = errored \cup {s}
  /\ UNCHANGED <<hostVars, pureVars, dispVars, connVars, wireVars, opened, ticked, callerClosed, connectCalls,
                 closeCalls, staleTimers, failedSinceOpen, autoSinceOpen,
                 failsAtOpen, exhausted>>

\* ws.onclose: this.attemptReconnect()
OnClose(s) ==
  /\ s \in Sockets
  /\ readyState[s] \in {"CONNECTING", "OPEN", "CLOSING"}
  /\ readyState' = [readyState EXCEPT ![s] = "CLOSED"]
  /\ attemptReconnect
  /\ failedSinceOpen' = IF s \in opened THEN failedSinceOpen ELSE failedSinceOpen + 1
  /\ autoSinceOpen' = IF CanRetry THEN autoSinceOpen + 1 ELSE autoSinceOpen
  /\ exhausted' = (exhausted \/ ~CanRetry)
  /\ errored' = errored \ {s}
  /\ UNCHANGED <<hostVars, pureVars, dispVars, ws, rafs, wireVars, opened, ticked, callerClosed,
                 connectCalls, closeCalls, staleTimers, failsAtOpen>>

\* the callback of requestAnimationFrame runs: this.registerTools()
registerTools ==
  /\ tools' = BuildTools
  /\ sent' = SentAfter(RegisterToolsMsg(BuildTools), 0)
  /\ dropped' = DroppedAfter(RegisterToolsMsg(BuildTools), 0)
  /\ log' = LogAfterSend(RegisterToolsMsg(BuildTools))

RegisterTick(s) ==
  /\ s \in rafs
  /\ rafs' = rafs \ {s}
  /\ ticked' = ticked \cup {s}
  /\ registerTools
  /\ UNCHANGED <<hostVars, pureVars, dispVars, ws, readyState, reconnectAttempts, timers, opened, errored,
                 callerClosed, connectCalls, closeCalls, staleTimers,
                 failedSinceOpen, autoSinceOpen, failsAtOpen, exhausted>>

\* a caller calls close(): this.ws.close() and this.ws = null, when this.ws is set
Close ==
  /\ closeCalls < MaxCloseCalls
  /\ closeCalls' = closeCalls + 1
  /\ staleTimers' = timers
  /\ IF ws # 0
       THEN /\ readyState' = [readyState EXCEPT
                 ![ws] = IF Live(ws) THEN "CLOSING" ELSE readyState[ws]]
            /\ callerClosed' = IF Live(ws) THEN callerClosed \cup {ws} ELSE callerClosed
            /\ ws' = 0
       ELSE UNCHANGED <<dispVars, readyState, callerClosed, ws>>
  /\ UNCHANGED <<hostVars, pureVars, dispVars, reconnectAttempts, timers, rafs, wireVars, opened, errored, ticked,
                 connectCalls, failedSinceOpen, autoSinceOpen, failsAtOpen, exhausted>>

(***************************************************************************)
(* The execution dispatcher.                                               *)
(***************************************************************************)
\* a string field the peer left out (undefined)
NoString == "<undefined>"

\* what the peer may send: the parsed JSON text of a message event
ApplyTool(toolId, parameters, executionId) ==
  [json |-> "object",
   msg |-> [type |-> "apply_tool", tool_id |-> toolId, parameters |-> parameters,
            execution_id |-> executionId]]
Params1 == [k |-> "params", x |-> 1]
NoParams == [k |-> "undefined"]
EmptyParams == [k |-> "params"]
PeerData ==
  { ApplyTool(<<"a", " ", "b">>, NoParams, "e1"),
    ApplyTool(<<"a", " ", "b">>, Params1, "e2"),
    ApplyTool(<<"x", " ", "y">>, NoParams, "e2"),
    [json |-> "malformed"] }

\* payloads that are no apply_tool message: text that does not parse, the
\* JSON text null, and an object without a type
Typeless == [json |-> "object", msg |-> [type |-> NoString]]
MalformedData == {[json |-> "malformed"], [json |-> "null"], Typeless}
InboundData == MalformedData \cup {ApplyTool(<<"a", " ", "b">>, NoParams, "e1")}

\* what commands.execute may resolve to, and what it may throw or reject with
Results == {Num(42), Ref(3)}
Thrown == {[k |-> "Error", message |-> "No active notebook found"]}

\* String(error): "Error: <message>" for an Error, the string itself for a string
StringOf(error) ==
  IF error.k = "Error" THEN <<"Error: ", error.message>> ELSE <<error.v>>

\* `Command not found: ${commandId}`
NotFoundText(commandId) == <<"Command not found: ">> \o commandId

\* message.parameters || {}
OrEmpty(parameters) == IF parameters = NoParams THEN EmptyParams ELSE parameters

\* the three responses applyToolFromServer builds
\* (the first is the success response with the result left unsanitized)
ResultOkUnsanitized(toolId, executionId, result) ==
  [type |-> "tool_result", tool_id |-> toolId, execution_id |-> executionId,
   success |-> TRUE, result |-> result]
ResultOk(toolId, executionId, result) ==
  [type |-> "tool_result", tool_id |-> toolId, execution_id |-> executionId,
   success |-> TRUE, result |-> safeSerialize(result, 2)]
ResultNotFound(toolId, executionId, commandId) ==
  [type |-> "tool_result", tool_id |-> toolId, execution_id |-> executionId,
   success |-> FALSE, error |-> NotFoundText(commandId)]
ResultError(toolId, executionId, error) ==
  [type |-> "tool_result", tool_id |-> toolId, execution_id |-> executionId,
   success |-> FALSE, error |-> StringOf(error)]

\* the frame of a suspended applyToolFromServer / applyToolLocal: its
\* arguments and locals; `rid` numbers the call (its message event, or the
\* panel's request)
Frame(origin, rid, toolId, commandId, parameters, executionId) ==
  [origin |-> origin, rid |-> rid, toolId |-> toolId, commandId |-> commandId,
   parameters |-> parameters, executionId |-> executionId]

\* the test applyToolFromServer makes before it invokes the command
\* (the first also asks whether the command is enabled, for comparison)
ServerAcceptsEnabled(commandId) == hasCommand(commandId) /\ isEnabledNow(commandId)
ServerAccepts(commandId) == hasCommand(commandId)

\* applyToolFromServer(toolId, parameters, executionId), up to its await
applyToolFromServer(rid, toolId, parameters, executionId) ==
  LET commandId == SpacesToColons(toolId) IN
  IF ServerAccepts(commandId)
    THEN /\ inflight' = inflight \cup
                {Frame("server", rid, toolId, commandId, parameters, executionId)}
         /\ invoked' = Append(invoked, [rid |-> rid, commandId |-> commandId,
                                         parameters |-> parameters])
         /\ UNCHANGED <<sent, dropped>>
    ELSE /\ sent' = SentAfter(ResultNotFound(toolId, executionId, commandId), rid)
         /\ dropped' = DroppedAfter(ResultNotFound(toolId, executionId, commandId), rid)
         /\ UNCHANGED <<inflight, invoked>>

\* the log after handleMessage's addMessage and after the sendMessage that
\* applyToolFromServer makes before returning, if it makes one
\* (TypeKept is the type as it came, for comparison)
TypeKept(m) == m.type
TypeOrUnknown(m) == IF m.type = NoString THEN "unknown" ELSE m.type
LogAfterReceive(m) ==
  LET entry == LogEntry("received", TypeOrUnknown(m), m)
      commandId == SpacesToColons(m.tool_id)
      response == ResultNotFound(m.tool_id, m.execution_id, commandId)
  IN  IF m.type = "apply_tool" /\ ~ServerAccepts(commandId) /\ IsOpen
        THEN log \o <<entry, LogEntry("sent", response.type, response)>>
        ELSE Append(log, entry)

\* whether the try of handleMessage has its catch
\* (FALSE would let the fault of JSON.parse or of message.type out)
HandleRethrows == FALSE
HandleCatches == TRUE

\* ws.onmessage: handleMessage(event.data)
OnMessage(s, data, limit) ==
  /\ s \in Sockets
  /\ readyState[s] = "OPEN"
  /\ Len(received) + uiCalls < limit
  /\ received' = Append(received, [sock |-> s, data |-> data])
  /\ IF data.json = "object"
       THEN /\ log' = LogAfterReceive(data.msg)
            /\ IF data.msg.type = "apply_tool"
                 THEN applyToolFromServer(Len(received) + 1, data.msg.tool_id,
                                          OrEmpty(data.msg.parameters),
                                          data.msg.execution_id)
                 ELSE UNCHANGED <<inflight, invoked, sent, dropped>>
            /\ UNCHANGED escaped
       ELSE /\ escaped' = IF HandleCatches THEN escaped ELSE escaped + 1
            /\ UNCHANGED <<log, inflight, invoked, sent, dropped>>
  /\ UNCHANGED <<hostVars, pureVars, connVars, tools, histVars, settled, uiCalls>>

\* the rest of applyToolFromServer, once the awaited command has settled:
\* the response it sends, and whether the fault leaves the function
\* (the first two are a response correlated through one shared slot holding
\* the execution id of the latest request, for comparison)
LatestExecutionId ==
  LET asked == {i \in 1..Len(received) : received[i].data.json = "object"}
  IN  received[CHOOSE i \in asked : \A j \in asked : j <= i].data.msg.execution_id
ServerResponseOfLatest(f, ok, value) ==
  IF ok THEN ResultOk(f.toolId, LatestExecutionId, value)
        ELSE ResultError(f.toolId, LatestExecutionId, value)
ServerResponse(f, ok, value) ==
  IF ok THEN ResultOk(f.toolId, f.executionId, value)
        ELSE ResultError(f.toolId, f.executionId, value)

\* whether the try of applyToolFromServer has its catch
\* (FALSE would let the fault leave the function)
ServerRethrows == FALSE
ServerCatches == TRUE

\* the rest of applyToolLocal: the entry it logs
\* (the first is the entry with success true whatever the outcome, for
\* comparison)
LocalEntryAlwaysOk(f, ok, value) ==
  IF ok
    THEN LogEntry("sent", "local_execute",
                  [tool_id |-> f.toolId, parameters |-> f.parameters,
                   result |-> safeSerialize(value, 2), success |-> TRUE])
    ELSE LogEntry("sent", "local_execute",
                  [tool_id |-> f.toolId, parameters |-> f.parameters,
                   error |-> StringOf(value), success |-> TRUE])
LocalEntry(f, ok, value) ==
  IF ok
    THEN LogEntry("sent", "local_execute",
                  [tool_id |-> f.toolId, parameters |-> f.parameters,
                   result |-> safeSerialize(value, 2), success |-> TRUE])
    ELSE LogEntry("sent", "local_execute",
                  [tool_id |-> f.toolId, parameters |-> f.parameters,
                   error |-> StringOf(value), success |-> FALSE])

\* the promise of commands.execute settles and the suspended call resumes
Settle(f, ok, value) ==
  /\ f \in inflight
  /\ inflight' = inflight \ {f}
  /\ settled' = Append(settled, [rid |-> f.rid, ok |-> ok, value |-> value,
                                  open |-> IsOpen, sock |-> ws])
  /\ IF f.origin = "server"
       THEN IF ok \/ ServerCatches
              THEN /\ sent' = SentAfter(ServerResponse(f, ok, value), f.rid)
                   /\ dropped' = DroppedAfter(ServerResponse(f, ok, value), f.rid)
                   /\ log' = LogAfterSend(ServerResponse(f, ok, value))
                   /\ UNCHANGED escaped
              ELSE /\ escaped' = escaped + 1
                   /\ UNCHANGED <<sent, dropped, log>>
       ELSE /\ log' = Append(log, LocalEntry(f, ok, value))
            /\ UNCHANGED <<sent, dropped, escaped>>
  /\ UNCHANGED <<hostVars, pureVars, connVars, tools, histVars, received, invoked, uiCalls>>

\* what widget.addMessage throws when it fails
LogFault == [k |-> "Error", message |-> "addMessage failed"]

\* the rest of applyToolFromServer when the command has resolved, the
\* connection is open and the widget's addMessage throws inside
\* sendMessage: ws.send has been given the success response by then; the
\* fault is caught by the catch of applyToolFromServer, which hands the
\* error response to sendMessage, and ws.send is given that too.  With
\* `again`, addMessage throws this second time as well and the fault leaves
\* the function
SettleLogFails(f, value, again) ==
  /\ f \in inflight
  /\ f.origin = "server"
  /\ IsOpen
  /\ inflight' = inflight \ {f}
  /\ settled' = Append(settled, [rid |-> f.rid, ok |-> TRUE, value |-> value,
                                  open |-> IsOpen, sock |-> ws])
  /\ sent' = sent \o << [sock |-> ws, msg |-> ServerResponse(f, TRUE, value),
                         cause |-> f.rid],
                        [sock |-> ws, msg |-> ServerResponse(f, FALSE, LogFault),
                         cause |-> f.rid] >>
  /\ log' = IF again THEN log
            ELSE Append(log, LogEntry("sent", "tool_result",
                                      ServerResponse(f, FALSE, LogFault)))
  /\ escaped' = IF again THEN escaped + 1 ELSE escaped
  /\ UNCHANGED <<hostVars, pureVars, connVars, tools, dropped, histVars, received,
                 invoked, uiCalls>>

\* the panel's Local button: applyToolLocal(toolId, parameters), up to its await
ExecuteLocal(toolId, parameters, limit) ==
  /\ Len(received) + uiCalls < limit
  /\ uiCalls' = uiCalls + 1
  /\ IF hasCommand(toolId)
       THEN /\ inflight' = inflight \cup
                   {Frame("local", -(uiCalls + 1), toolId, toolId, parameters, NoString)}
            /\ invoked' = Append(invoked, [rid |-> -(uiCalls + 1), commandId |-> toolId,
                                            parameters |-> parameters])
            /\ UNCHANGED log
       ELSE /\ log' = Append(log, LogEntry("sent", "local_execute",
                          [tool_id |-> toolId, parameters |-> parameters,
                           error |-> NotFoundText(toolId), success |-> FALSE]))
            /\ UNCHANGED <<inflight, invoked>>
  /\ UNCHANGED <<hostVars, pureVars, connVars, sent, dropped, tools, histVars, received, settled, escaped>>

\* the panel's Remote button: applyToolRemote(toolId, parameters)
ApplyToolMsg(toolId, parameters) ==
  [type |-> "apply_tool", tool_id |-> toolId, parameters |-> parameters]
ExecuteRemote(toolId, parameters, limit) ==
  /\ Len(received) + uiCalls < limit
  /\ uiCalls' = uiCalls + 1
  /\ sent' = SentAfter(ApplyToolMsg(toolId, parameters), 0)
  /\ dropped' = DroppedAfter(ApplyToolMsg(toolId, parameters), 0)
  /\ log' = LogAfterSend(ApplyToolMsg(toolId, parameters))
  /\ UNCHANGED <<hostVars, pureVars, connVars, tools, histVars, inflight, received, invoked, settled, escaped>>

\* the host disables one of its commands
HostDisables(id) ==
  /\ hasCommand(id)
  /\ isEnabledNow(id)
  /\ turnedOff' = turnedOff \cup {[id |-> id, after |-> Len(received)]}
  /\ UNCHANGED <<connVars, wireVars, histVars, dispVars, pureVars>>

\* the tool ids the panel shows with its buttons enabled
Clickable == {tools[i].id : i \in {j \in 1..Len(tools) : tools[j].isEnabled}}


(***************************************************************************)
(* The state after construction.                                           *)
(***************************************************************************)
\* a value not there (yet)
Nothing == [k |-> "nothing"]

Constructed ==
  /\ ws = 0
  /\ readyState = << >>
  /\ reconnectAttempts = 0
  /\ timers = 0
  /\ rafs = {}
  /\ sent = << >>
  /\ log = << >>
  /\ tools = << >>
  /\ opened = {}
  /\ errored = {}
  /\ ticked = {}
  /\ callerClosed = {}
  /\ connectCalls = 0
  /\ closeCalls = 0
  /\ staleTimers = 0
  /\ failedSinceOpen = 0
  /\ autoSinceOpen = 0
  /\ failsAtOpen = -1
  /\ exhausted = FALSE
  /\ inflight = {}
  /\ received = << >>
  /\ invoked = << >>
  /\ settled = << >>
  /\ escaped = 0
  /\ uiCalls = 0
  /\ dropped = << >>
  /\ turnedOff = {}

Init ==
  /\ Constructed
  /\ arg = Nothing
  /\ ret = Nothing

(***************************************************************************)
(* The connection lifecycle with a silent peer, callers calling connect()  *)
(* and close() at any time.                                                *)
(***************************************************************************)
NextConnOf(limit) ==
  \/ Connect(limit, MaxConnectCalls)
  \/ TimerFire(limit)
  \/ Close
  \/ \E s \in Sockets : OnOpen(s)
  \/ \E s \in Sockets : OnError(s)
  \/ \E s \in Sockets : OnClose(s)
  \/ \E s \in Sockets : RegisterTick(s)

NextConn == NextConnOf(MaxConnSockets)

SpecConn == Init /\ [][NextConn]_vars

(***************************************************************************)
(* The connection lifecycle as the plugin runs it: activate calls          *)
(* connect() once, and nothing calls connect() or close() after that.      *)
(***************************************************************************)
ActivateCalls == 1

NextRetryOf(limit) ==
  \/ Connect(limit, ActivateCalls)
  \/ TimerFire(limit)
  \/ \E s \in Sockets : OnOpen(s)
  \/ \E s \in Sockets : OnError(s)
  \/ \E s \in Sockets : OnClose(s)
  \/ \E s \in Sockets : RegisterTick(s)

NextRetry == NextRetryOf(MaxRetrySockets)

SpecRetry == Init /\ [][NextRetry]_vars

(***************************************************************************)
(* The whole program as the plugin runs it: activate calls connect() once, *)
(* the transport has its events, the peer sends messages, host commands    *)
(* settle and the panel's buttons are clicked.                             *)
(***************************************************************************)
Dispatch(limit) ==
  \/ \E s \in Sockets, data \in PeerData : OnMessage(s, data, limit)
  \/ \E f \in inflight, value \in Results : Settle(f, TRUE, value)
  \/ \E f \in inflight, value \in Thrown : Settle(f, FALSE, value)
  \/ \E toolId \in Clickable : ExecuteLocal(toolId, EmptyParams, limit)
  \/ \E toolId \in Clickable : ExecuteRemote(toolId, EmptyParams, limit)

Next ==
  \/ NextRetryOf(MaxSockets)
  \/ Dispatch(MaxRequests)

Spec == Init /\ [][Next]_vars

\* the same with several executions in flight at once
NextPair ==
  \/ NextRetryOf(MaxSockets)
  \/ Dispatch(MaxPairRequests)

SpecPair == Init /\ [][NextPair]_vars

\* one connection, from activate's connect() to its loss, and what the peer
\* sends on it, malformed payloads among it
NextSession ==
  \/ Connect(ActivateCalls, ActivateCalls)
  \/ \E s \in Sockets : OnOpen(s)
  \/ \E s \in Sockets : OnError(s)
  \/ \E s \in Sockets : OnClose(s)
  \/ \E s \in Sockets : RegisterTick(s)
  \/ \E s \in Sockets, data \in InboundData : OnMessage(s, data, MaxPairRequests)
  \/ \E f \in inflight, value \in Results : Settle(f, TRUE, value)
  \/ \E f \in inflight, value \in Thrown : Settle(f, FALSE, value)

SpecSession == Init /\ [][NextSession]_vars

\* one connection, the peer asking for a command the catalog shows disabled
\* and for one the host disables along the way
EnablementData ==
  { ApplyTool(<<"a", " ", "c">>, NoParams, "e1"),
    ApplyTool(<<"a", " ", "b">>, NoParams, "e2") }

NextEnablement ==
  \/ Connect(ActivateCalls, ActivateCalls)
  \/ \E s \in Sockets : OnOpen(s)
  \/ \E s \in Sockets : OnClose(s)
  \/ \E s \in Sockets : RegisterTick(s)
  \/ HostDisables(<<"a", ":", "b">>)
  \/ \E s \in Sockets, data \in EnablementData : OnMessage(s, data, MaxPairRequests)
  \/ \E f \in inflight, value \in Results : Settle(f, TRUE, value)
  \/ \E f \in inflight, value \in Thrown : Settle(f, FALSE, value)

SpecEnablement == Init /\ [][NextEnablement]_vars

\* one connection, the peer sending messages of other types than apply_tool:
\* the wire types the manager itself sends, a type of the peer's own, no type
OpaqueData ==
  { [json |-> "object", msg |-> [type |-> "register_tools", tools |-> << >>]],
    [json |-> "object",
     msg |-> [type |-> "tool_result", tool_id |-> <<"a", " ", "b">>,
              execution_id |-> "e1", success |-> TRUE, result |-> Num(42)]],
    [json |-> "object", msg |-> [type |-> "ping"]],
    Typeless }

NextOpaque ==
  \/ Connect(ActivateCalls, ActivateCalls)
  \/ \E s \in Sockets : OnOpen(s)
  \/ \E s \in Sockets : OnClose(s)
  \/ \E s \in Sockets : RegisterTick(s)
  \/ \E s \in Sockets, data \in OpaqueData \cup {ApplyTool(<<"a", " ", "b">>, NoParams, "e1")} :
       OnMessage(s, data, MaxPairRequests)
  \/ \E f \in inflight, value \in Results : Settle(f, TRUE, value)

SpecOpaque == Init /\ [][NextOpaque]_vars

\* the callers of sendMessage that need no peer: the deferred registration
\* and the panel's Remote button, with a connection that is lost and made
\* again
NextSend ==
  \/ Connect(MaxSendSockets, ActivateCalls)
  \/ TimerFire(MaxSendSockets)
  \/ \E s \in Sockets : OnOpenOf(s, MaxSendOpens)
  \/ \E s \in Sockets : OnError(s)
  \/ \E s \in Sockets : OnClose(s)
  \/ \E s \in Sockets : RegisterTick(s)
  \/ \E toolId \in Clickable : ExecuteRemote(toolId, EmptyParams, MaxRequests)

SpecSend == Init /\ [][NextSend]_vars

\* a request of the peer followed through a reconnection: the connection
\* is lost and made again while the command runs, and the panel's Remote
\* button is clicked
HandoverData ==
  { ApplyTool(<<"a", " ", "b">>, NoParams, "e1"),
    ApplyTool(<<"x", " ", "y">>, NoParams, "e2") }

NextHandover ==
  \/ Connect(MaxSockets, ActivateCalls)
  \/ TimerFire(MaxSockets)
  \/ \E s \in Sockets : OnOpenOf(s, MaxSendOpens)
  \/ \E s \in Sockets : OnClose(s)
  \/ \E s \in Sockets : RegisterTick(s)
  \/ \E s \in Sockets, data \in HandoverData : OnMessage(s, data, MaxRequests)
  \/ \E f \in inflight, value \in Results : Settle(f, TRUE, value)
  \/ \E toolId \in Clickable : ExecuteRemote(toolId, EmptyParams, MaxRequests)

SpecHandover == Init /\ [][NextHandover]_vars

\* one connection and the peer's requests, with a message log that may fail
NextLogFault ==
  \/ Connect(ActivateCalls, ActivateCalls)
  \/ \E s \in Sockets : OnOpen(s)
  \/ \E s \in Sockets : OnClose(s)
  \/ \E s \in Sockets : RegisterTick(s)
  \/ \E s \in Sockets, data \in HandoverData : OnMessage(s, data, MaxPairRequests)
  \/ \E f \in inflight, value \in Results : Settle(f, TRUE, value)
  \/ \E f \in inflight, value \in Thrown : Settle(f, FALSE, value)
  \/ \E f \in inflight, value \in Results, again \in BOOLEAN :
       SettleLogFails(f, value, again)

SpecLogFault == Init /\ [][NextLogFault]_vars

\* the same with callers calling connect() and close() at any time
NextCalls ==
  \/ NextConnOf(MaxSockets)
  \/ Dispatch(MaxRequests)

SpecCalls == Init /\ [][NextCalls]_vars

(***************************************************************************)
(* The pure functions on their own: one call, of any argument.             *)
(***************************************************************************)
\* the rest of the state stays as constructed
Aside == UNCHANGED <<connVars, wireVars, histVars, dispVars, hostVars>>

\* identifiers: any characters, separators among them
IdChars == {"a", "b", ":", " "}
Ids == UNION {[1..n -> IdChars] : n \in 0..MaxIdLen}

InitIds == Constructed /\ arg \in Ids /\ ret = Nothing

\* registerTools derives the tool id of the command
DeriveToolId ==
  /\ ret = Nothing
  /\ ret' = [k |-> "tool", toolId |-> ColonsToSpaces(arg)]
  /\ UNCHANGED arg
  /\ Aside

\* applyToolFromServer derives the command id of that tool id
DeriveCommandId ==
  /\ ret # Nothing
  /\ ret.k = "tool"
  /\ ret' = [k |-> "command", toolId |-> ret.toolId,
              commandId |-> SpacesToColons(ret.toolId)]
  /\ UNCHANGED arg
  /\ Aside

NextIds == DeriveToolId \/ DeriveCommandId
SpecIds == InitIds /\ [][NextIds]_vars

\* the host's commands: any list of distinct identifiers of these
CommandIds ==
  { <<"a", ":", "b">>, <<"a", " ", "b">>, <<"a", ":", "c">>, <<"d">>, <<"e">>,
    <<"notebook", ":", "run">>, <<"notebook", ":", "save">> }
CommandLists ==
  {q \in UNION {[1..n -> CommandIds] : n \in 0..MaxCommands} :
     \A i, j \in 1..Len(q) : q[i] = q[j] => i = j}

InitCatalog == Constructed /\ arg \in CommandLists /\ ret = Nothing

\* registerTools builds the tools of the commands listed
BuildCatalog ==
  /\ ret = Nothing
  /\ ret' = [k |-> "catalog", tools |-> BuildToolsOf(arg)]
  /\ UNCHANGED arg
  /\ Aside

NextCatalog == BuildCatalog
SpecCatalog == InitCatalog /\ [][NextCatalog]_vars

\* values: the primitives, a function and every structure of Heap
Values ==
  {Undefined, [k |-> "null"], [k |-> "boolean", v |-> TRUE], Num(1), Str("s"), Fun("f")}
    \cup {Ref(n) : n \in 1..Len(Heap)}

\* the arguments of a call: the value and a depth limit, or the value alone
InitSerialize ==
  /\ Constructed
  /\ arg \in [obj : Values, maxDepth : 0..MaxDepthArg] \cup [obj : Values]
  /\ ret = Nothing

\* the depth limit of the call: the one handed over, or the default
MaxDepthOf(a) == IF "maxDepth" \in DOMAIN a THEN a.maxDepth ELSE DefaultMaxDepth

\* safeSerialize(obj, maxDepth) is called and returns
CallSerialize ==
  /\ ret = Nothing
  /\ ret' = [k |-> "returned", value |-> safeSerialize(arg.obj, MaxDepthOf(arg))]
  /\ UNCHANGED arg
  /\ Aside

NextSerialize == CallSerialize
SpecSerialize == InitSerialize /\ [][NextSerialize]_vars

(***************************************************************************)
(* Properties of the dispatcher.                                           *)
(***************************************************************************)
\* the messages sent because of the message event numbered rid
SentFor(rid) == {j \in 1..Len(sent) : sent[j].cause = rid}

\* the apply_tool message of the message event numbered rid
RequestOf(rid) == received[rid].data.msg

\* Ref(3) as safeSerialize leaves it with a depth limit of 2
Plain(ks, vs) == [k |-> "object", keys |-> ks, vals |-> vs]
Ref3AtDepth2 ==
  Plain(<<"a">>, <<Plain(<<"b">>, <<Plain(<<"c">>, <<Str("<max depth reached>")>>)>>)>>)

\* C1: when the command of a peer's apply_tool resolves while the manager's
\* connection is open, one tool_result is sent on that connection, with the
\* request's tool_id and execution_id, success true and the value sanitized
\* with a depth limit of 2 (42 stays 42; an object nested four deep is cut
\* below its third level)
C1_SuccessResultSent ==
  \A i \in 1..Len(settled) :
    LET e == settled[i] IN
    (e.rid > 0 /\ e.ok /\ e.open) =>
      /\ Cardinality(SentFor(e.rid)) = 1
      /\ \A j \in SentFor(e.rid) :
           /\ sent[j].sock = e.sock
           /\ sent[j].msg = [type |-> "tool_result",
                             tool_id |-> RequestOf(e.rid).tool_id,
                             execution_id |-> RequestOf(e.rid).execution_id,
                             success |-> TRUE,
                             result |-> safeSerialize(e.value, 2)]
           /\ e.value = Num(42) => sent[j].msg.result = Num(42)
           /\ e.value = Ref(3) => sent[j].msg.result = Ref3AtDepth2

\* a nested result was sent, cut at the depth limit
C1_Witness ==
  \E i \in 1..Len(settled) :
    /\ settled[i].rid > 0 /\ settled[i].ok /\ settled[i].open
    /\ settled[i].value = Ref(3)
    /\ \E j \in SentFor(settled[i].rid) : sent[j].msg.result = Ref3AtDepth2

\* C2: every tool_result sent answers one received apply_tool: it carries
\* that request's tool_id and execution_id and the outcome of that request's
\* own invocation, whatever else is in flight; and an apply_tool sent from
\* the panel carries no execution_id
C2_ResultsCorrelated ==
  \A j \in 1..Len(sent) :
    LET m == sent[j].msg
        rid == sent[j].cause
    IN  /\ m.type = "tool_result" =>
             /\ rid \in 1..Len(received)
             /\ received[rid].data.json = "object"
             /\ RequestOf(rid).type = "apply_tool"
             /\ m.tool_id = RequestOf(rid).tool_id
             /\ m.execution_id = RequestOf(rid).execution_id
             /\ \A k \in 1..Len(sent) : sent[k].cause = rid => k = j
             /\ hasCommand(SpacesToColons(m.tool_id)) =>
                  \E i \in 1..Len(settled) :
                    /\ settled[i].rid = rid
                    /\ settled[i].ok = m.success
                    /\ IF m.success
                         THEN m.result = safeSerialize(settled[i].value, 2)
                         ELSE m.error = <<"Error: ", settled[i].value.message>>
        /\ m.type = "apply_tool" => "execution_id" \notin DOMAIN m

\* two executions overlapped and the later request was answered first
C2_Witness ==
  \E j, k \in 1..Len(sent) :
    /\ j < k
    /\ sent[j].msg.type = "tool_result" /\ sent[k].msg.type = "tool_result"
    /\ sent[j].cause > sent[k].cause
    /\ sent[j].msg.execution_id # sent[k].msg.execution_id
    /\ sent[j].msg.execution_id = RequestOf(sent[j].cause).execution_id

\* C3: every received apply_tool whose id, spaces turned to colons, is not a
\* registered command is answered with a tool_result, success false and error
\* 'Command not found: <command id>', and no command is invoked for it
C3_NotFoundReported ==
  \A rid \in 1..Len(received) :
    (/\ received[rid].data.json = "object"
     /\ RequestOf(rid).type = "apply_tool"
     /\ ~hasCommand(SpacesToColons(RequestOf(rid).tool_id))) =>
      /\ \E j \in SentFor(rid) :
           sent[j].msg = [type |-> "tool_result",
                          tool_id |-> RequestOf(rid).tool_id,
                          execution_id |-> RequestOf(rid).execution_id,
                          success |-> FALSE,
                          error |-> <<"Command not found: ">> \o
                                    SpacesToColons(RequestOf(rid).tool_id)]
      /\ \A i \in 1..Len(invoked) : invoked[i].rid # rid

\* the step in which the invocation of a peer's request f fails
FailsNow(f) ==
  /\ f \in inflight
  /\ f \notin inflight'
  /\ f.origin = "server"
  /\ Len(settled') = Len(settled) + 1
  /\ ~settled'[Len(settled')].ok

\* the tool_result that reports the failure of f
FailureReport(f) ==
  [type |-> "tool_result", tool_id |-> RequestOf(f.rid).tool_id,
   execution_id |-> RequestOf(f.rid).execution_id, success |-> FALSE,
   error |-> <<"Error: ", settled'[Len(settled')].value.message>>]

\* C4 as stated: every failed invocation of a peer's request is reported to
\* the peer as a tool_result with success false
C4_FailureAlwaysReported ==
  \A i \in 1..Len(settled) :
    (settled[i].rid > 0 /\ ~settled[i].ok) =>
      \E j \in SentFor(settled[i].rid) :
        /\ sent[j].msg.type = "tool_result"
        /\ ~sent[j].msg.success

\* C4: when the invocation of a peer's request fails, the failure is caught:
\* no fault leaves the handler, the connection state, the retry counter and
\* the socket stay as they are, and the tool_result with the request's ids,
\* success false and the stringified failure is sent if the connection is
\* open at that moment and dropped otherwise
C4_FailureReportedWhileOpen ==
  [][\A f \in inflight :
       FailsNow(f) =>
         /\ UNCHANGED connVars
         /\ escaped' = escaped
         /\ IF IsOpen
              THEN sent' = Append(sent, [sock |-> ws, msg |-> FailureReport(f),
                                         cause |-> f.rid])
              ELSE sent' = sent]_vars

\* a failure was reported on the open connection
C4_Witness ==
  \E i \in 1..Len(settled) :
    /\ settled[i].rid > 0 /\ ~settled[i].ok /\ settled[i].open
    /\ \E j \in SentFor(settled[i].rid) :
         sent[j].msg.error = <<"Error: ", "No active notebook found">>

(***************************************************************************)
(* Properties of the connection lifecycle.                                 *)
(***************************************************************************)
\* the register_tools messages sent on socket s
Registrations(s) ==
  {j \in 1..Len(sent) : sent[j].sock = s /\ sent[j].msg.type = "register_tools"}

\* C5: every open event leads to exactly one register_tools on its
\* connection: never two, and one once the deferred tick of that open has run
C5_RegisteredOncePerOpen ==
  \A s \in Sockets :
    /\ Cardinality(Registrations(s)) <= 1
    /\ s \in ticked => Cardinality(Registrations(s)) = 1

\* C6 as stated: once 5 connection attempts in a row have ended in a close
\* with no open, no timer is pending and no transport is alive
C6_StopsAfterFiveFailures ==
  failedSinceOpen = maxReconnectAttempts =>
    /\ timers = 0
    /\ \A s \in Sockets : ~Live(s)

\* the failed attempts in a row after which the manager gives up: the 5
\* automatic ones, and the caller's own when no attempt has opened yet
FailuresToGiveUp ==
  IF failsAtOpen = -1 THEN maxReconnectAttempts + 1 ELSE maxReconnectAttempts

\* C6: the manager schedules at most 5 automatic reconnects in a row; the
\* counter is their number; it has given up exactly when all 5 have failed,
\* and then no timer is pending and no transport is alive
C6_StopsAfterFiveReconnects ==
  /\ autoSinceOpen <= maxReconnectAttempts
  /\ reconnectAttempts = autoSinceOpen
  /\ exhausted <=> failedSinceOpen = FailuresToGiveUp
  /\ exhausted =>
       /\ autoSinceOpen = maxReconnectAttempts
       /\ timers = 0
       /\ \A s \in Sockets : ~Live(s)

\* the manager gave up without ever having opened: 6 attempts failed, the
\* last 5 of them automatic
C6_Witness ==
  /\ exhausted
  /\ failsAtOpen = -1
  /\ failedSinceOpen = maxReconnectAttempts + 1
  /\ autoSinceOpen = maxReconnectAttempts
  /\ timers = 0

\* C7: an open event sets the counter to 0 whatever it was, and from a
\* connection that opened the manager gives up only after 5 more automatic
\* reconnects
C7_OpenResetsCounter ==
  /\ \A s \in Sockets : readyState[s] = "OPEN" => reconnectAttempts = 0
  /\ failsAtOpen >= 0 =>
       /\ reconnectAttempts = autoSinceOpen
       /\ exhausted => autoSinceOpen = maxReconnectAttempts

\* an attempt failed, the next opened, and the manager gave up after that
\* connection was lost and 5 more reconnects failed
C7_Witness ==
  /\ failsAtOpen >= 1
  /\ exhausted
  /\ autoSinceOpen = maxReconnectAttempts
  /\ failedSinceOpen = maxReconnectAttempts

\* C8: the close event of a transport the caller closed with close() leaves
\* the counter alone and schedules no reconnect
C8_CloseSchedulesNothing ==
  [][\A s \in callerClosed :
       (readyState[s] = "CLOSING" /\ readyState'[s] = "CLOSED") =>
         /\ reconnectAttempts' = reconnectAttempts
         /\ timers' = timers]_vars

\* C9: a reconnect timer that was pending when close() was called creates
\* no transport when it fires
C9_StaleTimerAbandoned ==
  [][(staleTimers > 0 /\ timers' < timers) =>
       Len(readyState') = Len(readyState)]_vars

\* C10: a call of connect() while the manager's transport is connecting or
\* open changes nothing: no transport is created, the existing one is kept
\* and the counter is untouched
C10_ConnectGuarded ==
  [][(connectCalls' = connectCalls + 1 /\ ws # 0 /\ Live(ws)) =>
       /\ readyState' = readyState
       /\ ws' = ws
       /\ reconnectAttempts' = reconnectAttempts]_vars

(***************************************************************************)
(* Properties of sendMessage and of the panel's executions.                *)
(***************************************************************************)
\* this.ws is set and its transport is open
WsOpen == ws # 0 /\ readyState[ws] = "OPEN"

\* the step transmits exactly one message, on the manager's transport
SendsOne ==
  /\ Len(sent') = Len(sent) + 1
  /\ SubSeq(sent', 1, Len(sent)) = sent
  /\ sent'[Len(sent')].sock = ws

\* the step drops exactly one message
DropsOne ==
  /\ Len(dropped') = Len(dropped) + 1
  /\ SubSeq(dropped', 1, Len(dropped)) = dropped

LogsOne ==
  /\ Len(log') = Len(log) + 1
  /\ SubSeq(log', 1, Len(log)) = log

\* the step is a click on a Local button, and one on a Remote button
LocalClick == uiCalls' = uiCalls + 1 /\ sent' = sent /\ dropped' = dropped
RemoteClick == uiCalls' = uiCalls + 1 /\ (sent' # sent \/ dropped' # dropped)

\* C12: a local execution of a tool id of the catalog runs the command the
\* tool was derived from: it is never logged as 'Command not found'
C12_LocalRunsCatalogTool ==
  \A i \in 1..Len(log) :
    (/\ log[i].type = "local_execute"
     /\ \E t \in 1..Len(tools) : tools[t].id = log[i].data.tool_id) =>
      \/ log[i].data.success
      \/ log[i].data.error # <<"Command not found: ">> \o log[i].data.tool_id

\* C13: a local execution sends nothing, leaves the connection as it is and
\* lets no fault out.  Its start either invokes the command the host knows
\* by that id, or logs one local_execute entry with success false and
\* 'Command not found: <id>' and invokes nothing; when the invocation
\* settles, one local_execute entry is logged whose success flag is the
\* outcome, with the sanitized result or the stringified failure
C13_LocalLogsOutcome ==
  [][/\ LocalClick =>
          /\ UNCHANGED connVars
          /\ escaped' = escaped
          /\ \/ /\ log' = log
                /\ \E f \in inflight' \ inflight :
                     /\ inflight' = inflight \cup {f}
                     /\ f.origin = "local"
                     /\ hasCommand(f.toolId)
                     /\ invoked' = Append(invoked, [rid |-> f.rid, commandId |-> f.toolId,
                                                     parameters |-> f.parameters])
             \/ /\ inflight' = inflight
                /\ invoked' = invoked
                /\ LogsOne
                /\ log'[Len(log')].direction = "sent"
                /\ log'[Len(log')].type = "local_execute"
                /\ ~log'[Len(log')].data.success
                /\ ~hasCommand(log'[Len(log')].data.tool_id)
                /\ log'[Len(log')].data.error =
                     <<"Command not found: ">> \o log'[Len(log')].data.tool_id
     /\ \A f \in inflight :
          (f.origin = "local" /\ f \notin inflight') =>
            /\ UNCHANGED connVars
            /\ sent' = sent
            /\ dropped' = dropped
            /\ escaped' = escaped
            /\ invoked' = invoked
            /\ LogsOne
            /\ log'[Len(log')].direction = "sent"
            /\ log'[Len(log')].type = "local_execute"
            /\ log'[Len(log')].data.tool_id = f.toolId
            /\ log'[Len(log')].data.success = settled'[Len(settled')].ok
            /\ IF settled'[Len(settled')].ok
                 THEN log'[Len(log')].data.result =
                        safeSerialize(settled'[Len(settled')].value, 2)
                 ELSE log'[Len(log')].data.error =
                        <<"Error: ", settled'[Len(settled')].value.message>>]_vars

\* a command run locally failed and its failure was logged, nothing sent
\* for it
C13_Witness ==
  \E i \in 1..Len(log) :
    /\ log[i].type = "local_execute"
    /\ ~log[i].data.success
    /\ log[i].data.error = <<"Error: ", "No active notebook found">>
    /\ \E j \in 1..Len(invoked) : invoked[j].rid < 0
    /\ escaped = 0

\* C14: a request from the panel's Remote button that cannot be delivered,
\* the connection not being open, is logged as one apply_tool_error entry
C14_RemoteFailureLogged ==
  [][(RemoteClick /\ dropped' # dropped) =>
       /\ LogsOne
       /\ log'[Len(log')].type = "apply_tool_error"]_vars

(***************************************************************************)
(* Properties of handleMessage.                                            *)
(***************************************************************************)
\* the payload is no message with a type
NoTypedMessage(data) == data.json # "object" \/ data.msg.type = "<undefined>"

\* C15: a payload that does not parse, or that is no object with a type,
\* invokes no command, transmits nothing, leaves the connection and the
\* retry counter as they are and lets no fault out of the handler; what
\* does not parse leaves the message log alone and an object without a
\* type is logged as 'unknown'.  Every apply_tool for a known command
\* received on the connection is still invoked, whatever came before it
C15_MalformedDropped ==
  /\ [](\A r \in 1..Len(received) :
          (/\ received[r].data.json = "object"
           /\ received[r].data.msg.type = "apply_tool"
           /\ hasCommand(SpacesToColons(received[r].data.msg.tool_id))) =>
            \E i \in 1..Len(invoked) : invoked[i].rid = r)
  /\ [][(/\ Len(received') = Len(received) + 1
         /\ NoTypedMessage(received'[Len(received')].data)) =>
          /\ invoked' = invoked
          /\ inflight' = inflight
          /\ sent' = sent
          /\ dropped' = dropped
          /\ UNCHANGED connVars
          /\ escaped' = escaped
          /\ IF received'[Len(received')].data.json = "object"
               THEN LogsOne /\ log'[Len(log')].type = "unknown"
               ELSE log' = log]_vars

\* text that does not parse came first, and the apply_tool that followed it
\* on the same connection was invoked and answered
C15_Witness ==
  /\ Len(received) = 2
  /\ received[1].data.json = "malformed"
  /\ received[2].data.json = "object"
  /\ received[2].sock = received[1].sock
  /\ \E i \in 1..Len(invoked) : invoked[i].rid = 2
  /\ \E j \in 1..Len(sent) : sent[j].cause = 2 /\ sent[j].msg.success
  /\ escaped = 0

(***************************************************************************)
(* Properties of the tool ids and of the catalog.                          *)
(***************************************************************************)
\* the identifier has no space in it
Spaceless(id) == \A i \in 1..Len(id) : id[i] # " "

\* C16: for a command identifier without a space, the command id that
\* applyToolFromServer derives from the tool id that registerTools derived
\* is the identifier itself
C16_ToolIdRoundTrips ==
  (ret # Nothing /\ ret.k = "command" /\ Spaceless(arg)) => ret.commandId = arg

\* an identifier with two colons made the round trip
C16_Witness ==
  /\ arg = <<"a", ":", ":">>
  /\ ret # Nothing
  /\ ret.k = "command"
  /\ ret.toolId = <<"a", " ", " ">>
  /\ ret.commandId = arg

\* C17: the tools built from a list of distinct command identifiers have
\* distinct ids
C17_ToolIdsUnique ==
  (ret # Nothing /\ ret.k = "catalog") =>
    \A i, j \in 1..Len(ret.tools) : ret.tools[i].id = ret.tools[j].id => i = j

\* the places of the commands whose queries do not fail, and the place of
\* the j-th command among them
Kept == {j \in 1..Len(arg) : ~queryThrows(arg[j])}
Rank(j) == Cardinality({k \in Kept : k <= j})

\* C18: the catalog holds one tool for every command whose queries do not
\* fail and none for the others, in the host's order, with the command's
\* colons turned to spaces and its enabled-state; for notebook:run and
\* notebook:save it is the tools 'notebook run' and 'notebook save', enabled
C18_CatalogSkipsFailures ==
  (ret # Nothing /\ ret.k = "catalog") =>
    /\ Len(ret.tools) = Cardinality(Kept)
    /\ \A j \in Kept :
         /\ Len(ret.tools[Rank(j)].id) = Len(arg[j])
         /\ \A i \in 1..Len(arg[j]) :
              ret.tools[Rank(j)].id[i] = IF arg[j][i] = ":" THEN " " ELSE arg[j][i]
         /\ ret.tools[Rank(j)].isEnabled = isEnabled(arg[j])
    /\ arg = << <<"notebook", ":", "run">>, <<"notebook", ":", "save">> >> =>
         /\ Len(ret.tools) = 2
         /\ ret.tools[1].id = <<"notebook", " ", "run">>
         /\ ret.tools[2].id = <<"notebook", " ", "save">>
         /\ ret.tools[1].isEnabled
         /\ ret.tools[2].isEnabled

\* the queries of the second of three commands failed and the catalog holds
\* the first and the third
C18_Witness ==
  /\ arg = << <<"a", ":", "b">>, <<"e">>, <<"d">> >>
  /\ ret # Nothing
  /\ Len(ret.tools) = 2
  /\ ret.tools[1].id = <<"a", " ", "b">>
  /\ ret.tools[2].id = <<"d">>

(***************************************************************************)
(* Properties of safeSerialize.                                            *)
(***************************************************************************)
\* the value is a finite tree of primitives, arrays and plain objects, with
\* no reference left in it, nested no deeper than `room`
RECURSIVE JsonSafe(_, _)
JsonSafe(v, room) ==
  \/ v.k \in {"undefined", "null", "boolean", "number", "string"}
  \/ /\ v.k = "array"
     /\ room > 0
     /\ \A i \in 1..Len(v.items) : JsonSafe(v.items[i], room - 1)
  \/ /\ v.k = "object"
     /\ room > 0
     /\ \A i \in 1..Len(v.vals) : JsonSafe(v.vals[i], room - 1)

C20_SiblingsSerializedInFull ==
  (ret # Nothing /\ arg.obj = Ref(7) /\ MaxDepthOf(arg) >= 1) =>
    /\ ret.value.vals[1] = Plain(<<"cell">>, <<Num(1)>>)
    /\ ret.value.vals[2] = Plain(<<"cell">>, <<Num(1)>>)

\* `out` is what the depth limit makes of v, a value found at `depth` inside
\* a value handed to safeSerialize, below the objects of `path`: every
\* structure deeper than maxDepth is the sentinel, and every structure at
\* maxDepth or above is a structure of the same kind whose members are cut
\* in the same way.  An object that holds itself, being one of `path`, is
\* left to the rule for cycles
RECURSIVE CutBelow(_, _, _, _, _)
CutBelow(v, out, depth, maxDepth, path) ==
  IF v.k # "ref" THEN TRUE
  ELSE IF depth > maxDepth THEN out = Str("<max depth reached>")
  ELSE IF Heap[v.at].array
    THEN /\ out.k = "array"
         /\ \A i \in 1..Len(out.items) :
              CutBelow(Heap[v.at].vals[i], out.items[i], depth + 1, maxDepth, path)
  ELSE IF v.at \in path THEN TRUE
  ELSE /\ out.k = "object"
       /\ \A i \in 1..Len(out.vals) :
            CutBelow(Heap[v.at].vals[i], out.vals[i], depth + 1, maxDepth,
                     path \cup {v.at})

\* an array as safeSerialize returns it
Items(vs) == [k |-> "array", items |-> vs]

\* Heap[10] as safeSerialize leaves it with the default limit
Ref10AtDefault ==
  Plain(<<"top">>, <<Plain(<<"a">>, <<Plain(<<"b">>, <<Plain(<<"c">>,
        <<Str("<max depth reached>")>>)>>)>>)>>)

\* C21: in what safeSerialize returns, every structure nested deeper than the
\* depth limit is '<max depth reached>' and every structure at the limit or
\* above is the real structure; with the default limit the sentinel is at
\* depth 4 and with the dispatcher's limit of 2 at depth 3
C21_DepthLimitCuts ==
  ret # Nothing =>
    /\ CutBelow(arg.obj, ret.value, 0, MaxDepthOf(arg), {})
    /\ ("maxDepth" \notin DOMAIN arg /\ arg.obj = Ref(10)) => ret.value = Ref10AtDefault
    /\ (MaxDepthOf(arg) = 2 /\ arg.obj = Ref(3)) =>
         /\ ret.value = Ref3AtDepth2
         /\ ResultOk(<<"a", " ", "b">>, "e1", arg.obj).result = ret.value

\* the length slice(0, 100) leaves of a length
Capped(n) == IF n > SliceCap THEN SliceCap ELSE n

\* wherever `out` has an array or an object for a structure of v, it has the
\* first 100 of its elements, or of its keys, and all of them when they are
\* no more than 100, in their order and each in its place, and nothing else
RECURSIVE KeepsFirst(_, _)
KeepsFirst(v, out) ==
  IF v.k # "ref" THEN TRUE
  ELSE LET src == Heap[v.at] IN
       IF out.k = "array"
         THEN /\ Len(out.items) = Capped(Len(src.vals))
              /\ \A i \in 1..Len(out.items) :
                   /\ IsPrimitive(src.vals[i]) => out.items[i] = src.vals[i]
                   /\ KeepsFirst(src.vals[i], out.items[i])
       ELSE IF out.k = "object"
         THEN /\ Len(out.keys) = Capped(Len(src.keys))
              /\ Len(out.vals) = Len(out.keys)
              /\ \A i \in 1..Len(out.keys) :
                   /\ out.keys[i] = src.keys[i]
                   /\ IsPrimitive(src.vals[i]) => out.vals[i] = src.vals[i]
                   /\ KeepsFirst(src.vals[i], out.vals[i])
       ELSE TRUE

ClosesNow(s) == readyState[s] # "CLOSED" /\ readyState'[s] = "CLOSED"

\* C23: a close event with the counter below 5 adds one to the counter and
\* sets one timer; with the counter at 5 it leaves both as they are.  The
\* close handler itself creates no transport and leaves this.ws alone; the
\* timer, when it fires, makes the one call of connect()
C23_CloseSchedulesOneReconnect ==
  [][/\ \A s \in Sockets :
          ClosesNow(s) =>
            /\ IF reconnectAttempts < maxReconnectAttempts
                 THEN /\ reconnectAttempts' = reconnectAttempts + 1
                      /\ timers' = timers + 1
                 ELSE /\ reconnectAttempts = maxReconnectAttempts
                      /\ reconnectAttempts' = reconnectAttempts
                      /\ timers' = timers
            /\ Len(readyState') = Len(readyState)
            /\ ws' = ws
     /\ timers' < timers =>
          /\ timers' = timers - 1
          /\ Len(readyState') = Len(readyState) + 1
          /\ ws' = Len(readyState')
          /\ reconnectAttempts' = reconnectAttempts]_vars

\* five close events each set a timer whose firing made a transport, and
\* the close event of the last of them, the counter at 5, set none
C23_Witness ==
  /\ reconnectAttempts = maxReconnectAttempts
  /\ Len(readyState) = maxReconnectAttempts + 1
  /\ \A s \in Sockets : readyState[s] = "CLOSED"
  /\ timers = 0
  /\ exhausted

\* the step is the error event of the transport s
ErrorsNow(s) == s \notin errored /\ s \in errored'

\* C24: an error event changes nothing: this.ws, every transport's state,
\* the counter, the timers and the deferred registrations stay as they are
\* and nothing is sent or logged.  A transport that had an error event
\* changes state only by its close event, and the counter and the timers
\* only grow in a close event
C24_ErrorChangesNothing ==
  [][/\ \A s \in Sockets :
          ErrorsNow(s) =>
            /\ UNCHANGED <<ws, readyState, reconnectAttempts, timers, rafs>>
            /\ UNCHANGED <<sent, dropped, log, tools>>
     /\ \A s \in errored : readyState'[s] # readyState[s] => ClosesNow(s)
     /\ (timers' > timers \/ reconnectAttempts' > reconnectAttempts) =>
          \E s \in Sockets : ClosesNow(s)]_vars

\* the open connection had an error event and no close event yet: it is
\* still open and the manager's transport, and no reconnect is scheduled
C24_Witness ==
  \E s \in errored :
    /\ readyState[s] = "OPEN"
    /\ ws = s
    /\ timers = 0
    /\ reconnectAttempts = 0

(***************************************************************************)
(* Properties of the peer's requests and enablement.                       *)
(***************************************************************************)
\* the message event numbered r is an apply_tool for a command the host knows
AsksKnown(r) ==
  /\ received[r].data.json = "object"
  /\ received[r].data.msg.type = "apply_tool"
  /\ hasCommand(SpacesToColons(received[r].data.msg.tool_id))

\* the catalog shows the tool id disabled
ShownDisabled(toolId) ==
  \E t \in 1..Len(tools) : tools[t].id = toolId /\ ~tools[t].isEnabled

\* C25: every apply_tool for a command the host knows is invoked, enabled or
\* not: the command is never answered as not found, and once its invocation
\* settles with the connection open its tool_result carries the outcome of
\* the invocation
C25_DisabledStillExecuted ==
  /\ \A r \in 1..Len(received) :
       AsksKnown(r) =>
         /\ \E i \in 1..Len(invoked) :
              /\ invoked[i].rid = r
              /\ invoked[i].commandId = SpacesToColons(RequestOf(r).tool_id)
         /\ \A j \in SentFor(r) : "result" \in DOMAIN sent[j].msg \/ sent[j].msg.error[1] = "Error: "
  /\ \A i \in 1..Len(settled) :
       (settled[i].rid > 0 /\ settled[i].open) =>
         \E j \in SentFor(settled[i].rid) :
           /\ sent[j].msg.type = "tool_result"
           /\ sent[j].msg.success = settled[i].ok
           /\ settled[i].ok => sent[j].msg.result = safeSerialize(settled[i].value, 2)

\* a tool the catalog shows disabled was executed and answered with its
\* result, and a tool the host disabled after the catalog was sent was
\* executed on a request received after that
C25_Witness ==
  /\ ShownDisabled(<<"a", " ", "c">>)
  /\ ~ShownDisabled(<<"a", " ", "b">>)
  /\ \E r \in 1..Len(received) :
       /\ RequestOf(r).tool_id = <<"a", " ", "c">>
       /\ \E i \in 1..Len(invoked) : invoked[i].rid = r
       /\ \E j \in SentFor(r) : sent[j].msg.success /\ sent[j].msg.result = Num(42)
  /\ \E d \in turnedOff, r \in 1..Len(received) :
       /\ d.id = <<"a", ":", "b">>
       /\ r > d.after
       /\ RequestOf(r).tool_id = <<"a", " ", "b">>
       /\ \E i \in 1..Len(invoked) : invoked[i].rid = r
       /\ \E j \in SentFor(r) : sent[j].msg.type = "tool_result"

\* the step is a message event whose payload is a message of another type
\* than apply_tool, or of no type
OpaqueNow ==
  /\ Len(received') = Len(received) + 1
  /\ received'[Len(received')].data.json = "object"
  /\ received'[Len(received')].data.msg.type # "apply_tool"

\* C26: a received message of another type than apply_tool (register_tools
\* and tool_result among them), or of no type, appends one 'received' entry
\* to the message log, with the message's type or 'unknown' for none and
\* the message as data; no command is invoked, nothing is transmitted and
\* the connection, the counter and the timers stay as they are
C26_OtherTypesOnlyLogged ==
  [][OpaqueNow =>
       /\ LogsOne
       /\ log'[Len(log')].direction = "received"
       /\ log'[Len(log')].type =
            IF received'[Len(received')].data.msg.type = NoString
              THEN "unknown" ELSE received'[Len(received')].data.msg.type
       /\ log'[Len(log')].data = received'[Len(received')].data.msg
       /\ invoked' = invoked
       /\ inflight' = inflight
       /\ sent' = sent
       /\ dropped' = dropped
       /\ escaped' = escaped
       /\ UNCHANGED connVars]_vars

\* a tool_result and a message without a type were received on the open
\* connection: both are in the log, nothing was invoked and nothing but the
\* registration was sent
C26_Witness ==
  /\ Len(received) = 2
  /\ received[1].data.msg.type = "tool_result"
  /\ received[2].data = Typeless
  /\ \E i, j \in 1..Len(log) :
       /\ i < j
       /\ log[i].direction = "received" /\ log[i].type = "tool_result"
       /\ log[j].direction = "received" /\ log[j].type = "unknown"
  /\ invoked = << >>
  /\ \A j \in 1..Len(sent) : sent[j].msg.type = "register_tools"
  /\ ws # 0 /\ readyState[ws] = "OPEN"

\* the transports that are connecting or open
LiveSockets == {s \in Sockets : Live(s)}

\* C27: with connect() called once and close() never, at most one transport
\* is connecting or open, at most one reconnect timer is pending, and no
\* timer is pending while a transport is connecting or open
C27_OneAttemptAtATime ==
  /\ connectCalls <= ActivateCalls
  /\ closeCalls = 0
  /\ Cardinality(LiveSockets) <= 1
  /\ timers <= 1
  /\ timers > 0 => LiveSockets = {}
  /\ \A s \in LiveSockets : ws = s

\* the connection opened and was lost, its reconnect failed too, and the
\* one timer of the next reconnect is pending with no transport alive
C27_Witness ==
  /\ Len(readyState) = 2
  /\ 1 \in opened
  /\ 2 \notin opened
  /\ LiveSockets = {}
  /\ timers = 1
  /\ reconnectAttempts = 2

(***************************************************************************)
(* Properties of what is sent on which connection.                         *)
(***************************************************************************)
\* C28: a tool_result is sent on the connection its apply_tool was received
\* on, and on no other
C28_ResultOnRequestsConnection ==
  \A j \in 1..Len(sent) :
    sent[j].msg.type = "tool_result" =>
      sent[j].sock = received[sent[j].cause].sock

\* the tool_result messages sent for the message event numbered r
ResultsFor(r) == {j \in SentFor(r) : sent[j].msg.type = "tool_result"}

\* C29: for every apply_tool received, at most one tool_result is sent
C29_AtMostOneResult ==
  \A r \in 1..Len(received) : Cardinality(ResultsFor(r)) <= 1

\* the messages sent on the connection s, as places in `sent`
SentOn(s) == {j \in 1..Len(sent) : sent[j].sock = s}

\* C30: on every connection the first message sent is its register_tools:
\* no tool_result and no apply_tool goes out on it before
C30_RegistrationFirst ==
  \A s \in Sockets :
    \A j \in SentOn(s) :
      (\A i \in SentOn(s) : j <= i) => sent[j].msg.type = "register_tools"

\* the types sendMessage is given: the messages that go over the wire
WireTypes == {"register_tools", "apply_tool", "tool_result"}

\* the places in the message log of the 'sent' entries of a wire type and of
\* the 'received' entries, and the n-th of such a set of places
SentPlaces == {i \in 1..Len(log) : log[i].direction = "sent" /\ log[i].type \in WireTypes}
ReceivedPlaces == {i \in 1..Len(log) : log[i].direction = "received"}
NthOf(places, n) == CHOOSE i \in places : Cardinality({j \in places : j <= i}) = n

\* the message events whose payload parsed to a message, as places in
\* `received`
Parsed == {r \in 1..Len(received) : received[r].data.json = "object"}

\* the 'sent' entries of a wire type are the messages handed to ws.send, one
\* for one and in the same order (so a dropped message has no entry)
SentLogged ==
  /\ Cardinality(SentPlaces) = Len(sent)
  /\ \A k \in 1..Len(sent) :
       /\ log[NthOf(SentPlaces, k)].data = sent[k].msg
       /\ log[NthOf(SentPlaces, k)].type = sent[k].msg.type

\* the 'received' entries are the parsed messages, one for one and in order
ReceivedLogged ==
  /\ Cardinality(ReceivedPlaces) = Cardinality(Parsed)
  /\ \A n \in 1..Cardinality(Parsed) :
       log[NthOf(ReceivedPlaces, n)].data = received[NthOf(Parsed, n)].data.msg

\* the entry of a received message comes before the entry of every message
\* sent in handling it
ReceivedLoggedFirst ==
  \A k \in 1..Len(sent) :
    sent[k].cause \in Parsed =>
      NthOf(ReceivedPlaces, Cardinality({r \in Parsed : r <= sent[k].cause}))
        < NthOf(SentPlaces, k)

\* C31: the message log agrees with the wire: its 'sent' entries of the wire
\* types are the messages transmitted, one for one and in order, a dropped
\* message has no entry, and every parsed message received has exactly one
\* 'received' entry, placed before the entries of what handling it sent
C31_LogMatchesWire ==
  /\ SentLogged
  /\ ReceivedLogged
  /\ ReceivedLoggedFirst

====
